---- MODULE Spec2Model ----
(***************************************************************************)
(* Model of target-kinesis: the line-protocol loop of persist_lines, the   *)
(* metadata enrichment / stripping of records, the flush thresholds and    *)
(* the two sinks (firehose_deliver, kinesis_deliver).                      *)
(*                                                                         *)
(* JSON leaf values are represented by their Python repr text, so that     *)
(* len(str(RECORDS)) can be computed as the code computes it: the integer  *)
(* 1 is "1", the string 'users' is "'users'", None is "None".              *)
(***************************************************************************)
EXTENDS Integers, Sequences, FiniteSets, TLC

VARIABLES config, now, RECORDS, state, schemas, validators, key_properties,
          lines_counter, pc, returned, stdout, consumed, calls, put_records,
          record_lines, sink_args, sink_result, enrich_args, enrich_result

vars == <<config, now, RECORDS, state, schemas, validators, key_properties,
          lines_counter, pc, returned, stdout, consumed, calls, put_records,
          record_lines, sink_args, sink_result,
          enrich_args, enrich_result>>

(***************************************************************************)
(* Bounds of the model.                                                    *)
(***************************************************************************)
MaxLines == 4

MaxBatchLines == 13

MaxSinkBatch == 2

(***************************************************************************)
(* Program constants.                                                      *)
(***************************************************************************)
DEFAULT_RECORD_CHUNKS == 10

DEFAULT_DATA_CHUNKS == 1000

None == "None"

SdcKeys == {"_sdc_batched_at", "_sdc_deleted_at", "_sdc_extracted_at",
            "_sdc_primary_key", "_sdc_received_at", "_sdc_sequence",
            "_sdc_table_version"}

(***************************************************************************)
(* Python built-ins used by the code.                                      *)
(***************************************************************************)
\* dict.get(key): the value, or None when the key is absent
Get(d, k) == IF k \in DOMAIN d THEN d[k] ELSE None

\* dict.update(other): the keys of other win
Update(d, other) == [k \in (DOMAIN d) \cup (DOMAIN other) |->
                        IF k \in DOMAIN other THEN other[k] ELSE d[k]]

\* dict.pop(key, None) for every key of a set
PopAll(d, keys) == [k \in (DOMAIN d) \ keys |-> d[k]]

\* repr of a str
Quote(s) == "'" \o s \o "'"

RECURSIVE SumEntries(_, _)
SumEntries(d, keys) ==
    IF keys = {} THEN 0
    ELSE LET k == CHOOSE x \in keys : TRUE
         IN  (Len(k) + 2) + 2 + Len(d[k]) + SumEntries(d, keys \ {k})

\* len(repr(d)) of a dict: {'k': v, 'k2': v2}
ReprLenDict(d) ==
    IF DOMAIN d = {} THEN 2
    ELSE 2 + SumEntries(d, DOMAIN d) + 2 * (Cardinality(DOMAIN d) - 1)

RECURSIVE SumItems(_)
SumItems(recs) ==
    IF recs = <<>> THEN 0 ELSE ReprLenDict(Head(recs)) + SumItems(Tail(recs))

\* len(str(records)) of a list of dicts: [{...}, {...}]
StrLen(recs) ==
    IF recs = <<>> THEN 2
    ELSE 2 + SumItems(recs) + 2 * (Len(recs) - 1)

(***************************************************************************)
(* Inputs: timestamps, record payloads, protocol lines, configurations.    *)
(***************************************************************************)
\* datetime.now(timezone): its UTC isoformat and its epoch milliseconds
Timestamps == {[iso |-> "'2020-01-01T00:00:00'", ms |-> "1577836800000"]}

Streams == {"users", "orders"}

StateValues == {"{'bookmark': 1}", "{'bookmark': 2}"}

\* o['record'] of a RECORD line
Payloads == {[id |-> "1"],
             [name |-> "'a'", _sdc_deleted_at |-> "'2019-12-31'"]}

\* o['schema']['properties'] of a SCHEMA line (the property names)
SchemaProperties == {"id", "name"}

RecordLines ==
    {[valid |-> TRUE,
      obj |-> [type |-> "RECORD", stream |-> s, record |-> p,
               version |-> "7"]] : s \in Streams, p \in Payloads}

RecordNoStreamLines ==
    {[valid |-> TRUE, obj |-> [type |-> "RECORD", record |-> [id |-> "1"]]]}

StateLines ==
    {[valid |-> TRUE, obj |-> [type |-> "STATE", value |-> v]] :
        v \in StateValues}

SchemaLines ==
    {[valid |-> TRUE,
      obj |-> [type |-> "SCHEMA", stream |-> s,
               schema |-> SchemaProperties,
               key_properties |-> "['id']"]] : s \in Streams}

SchemaNoKeyLines ==
    {[valid |-> TRUE,
      obj |-> [type |-> "SCHEMA", stream |-> "users",
               schema |-> SchemaProperties]]}

SchemaNoStreamLines ==
    {[valid |-> TRUE,
      obj |-> [type |-> "SCHEMA", schema |-> SchemaProperties,
               key_properties |-> "['id']"]]}

UnknownTypeLines ==
    {[valid |-> TRUE, obj |-> [type |-> "ACTIVATE_VERSION", stream |-> "users"]]}

MissingTypeLines ==
    {[valid |-> TRUE, obj |-> [stream |-> "users", record |-> [id |-> "1"]]]}

\* text that json.loads rejects; obj is what the text was meant to say
MalformedLines ==
    {[valid |-> FALSE,
      obj |-> [type |-> "RECORD", stream |-> "users", record |-> [id |-> "1"],
               version |-> "7"]],
     [valid |-> FALSE, obj |-> [type |-> "STATE", value |-> "{'bookmark': 1}"]],
     [valid |-> FALSE,
      obj |-> [type |-> "SCHEMA", stream |-> "orders",
               schema |-> SchemaProperties, key_properties |-> "['id']"]]}

\* a configuration file: every key is optional
Opt(key, values) == {<<>>} \cup {(key :> v) : v \in values}

ConfigsOf(rcs, dcs, metas, fhs) ==
    {a @@ b @@ c @@ d : a \in rcs, b \in dcs, c \in metas, d \in fhs}

Configs ==
    ConfigsOf(Opt("record_chunks", {-1, 0, 1}),
              Opt("data_chunks", {-2, 27}),
              Opt("add_metadata_columns", {TRUE}),
              Opt("is_firehose", {TRUE}))

(***************************************************************************)
(* Metadata enrichment and stripping (target.py).                          *)
(***************************************************************************)
\* add_metadata_columns_to_schema: the seven _sdc properties are added to
\* o['schema']['properties'] in place
add_metadata_columns_to_schema(schema_message) ==
    [schema_message EXCEPT !.schema = @ \cup SdcKeys]

\* add_metadata_values_to_record: record.update(...) with the seven fields
add_metadata_values_to_record(record_message, schema_message, timestamp) ==
    LET utcnow == timestamp.iso
    IN  Update(record_message.record,
               [_sdc_batched_at    |-> utcnow,
                _sdc_deleted_at    |-> Get(record_message.record, "_sdc_deleted_at"),
                _sdc_extracted_at  |-> Get(record_message, "time_extracted"),
                _sdc_primary_key   |-> Get(schema_message, "key_properties"),
                _sdc_received_at   |-> utcnow,
                _sdc_sequence      |-> timestamp.ms,
                _sdc_table_version |-> Get(record_message, "version")])

\* one of the seven fields left behind
remove_metadata_values_from_record_six(record_message) ==
    PopAll(record_message.record, SdcKeys \ {"_sdc_table_version"})

\* remove_metadata_values_from_record: pop each of the seven fields
remove_metadata_values_from_record(record_message) ==
    PopAll(record_message.record, SdcKeys)

(***************************************************************************)
(* Configuration lookups.                                                  *)
(***************************************************************************)
CfgGet(cfg, key, default) == IF key \in DOMAIN cfg THEN cfg[key] ELSE default

record_chunks(cfg) == CfgGet(cfg, "record_chunks", DEFAULT_RECORD_CHUNKS)

data_chunks(cfg) == CfgGet(cfg, "data_chunks", DEFAULT_DATA_CHUNKS)

(***************************************************************************)
(* The sinks (firehose.py, kinesis.py).  The records argument is           *)
(* [shape, items]: a list (items is a sequence) or a dict (items is a      *)
(* mapping).  client is [ok, response]: put_record returns the response    *)
(* or raises.  The result is the exception raised ("" when none), the      *)
(* put_record calls made and the value returned (<<>> when none).          *)
(***************************************************************************)
ListArg(recs) == [shape |-> "list", items |-> recs]

DictArg(rec) == [shape |-> "dict", items |-> rec]

\* len(records)
PyLen(records) ==
    IF records.shape = "list" THEN Len(records.items)
    ELSE Cardinality(DOMAIN records.items)

EmptyError == "Record list is empty"

ShapeError == "Single record given, array is required"

\* "\n".join(map(json.dumps, records)) + "\n": one document per record;
\* nl tells whether a newline follows the document
JoinLines(docs) == [i \in 1..Len(docs) |-> [doc |-> docs[i], nl |-> i < Len(docs)]]

PlusNewline(joined) ==
    [i \in 1..Len(joined) |->
        IF i = Len(joined) THEN [joined[i] EXCEPT !.nl = TRUE] ELSE joined[i]]

Payload(recs) == PlusNewline(JoinLines(recs))

SinkResult(raised, puts, response) ==
    [raised |-> raised, puts |-> puts, response |-> response]

\* client.put_record(**call)
PutRecord(client, call) ==
    IF client.ok THEN SinkResult("", <<call>>, <<client.response>>)
    ELSE SinkResult("ClientError", <<call>>, <<>>)

\* the historical variant: put_record per item while building the payload
firehose_deliver_per_item(client, stream_name, records) ==
    IF PyLen(records) = 0 THEN SinkResult(EmptyError, <<>>, <<>>)
    ELSE IF records.shape = "dict" THEN SinkResult(ShapeError, <<>>, <<>>)
    ELSE LET one(r) == [DeliveryStreamName |-> stream_name,
                        Record |-> [Data |-> Payload(<<r>>)]]
             each == [i \in 1..Len(records.items) |-> one(records.items[i])]
             all == [DeliveryStreamName |-> stream_name,
                     Record |-> [Data |-> Payload(records.items)]]
         IN  IF client.ok
             THEN SinkResult("", Append(each, all), <<client.response>>)
             ELSE SinkResult("ClientError", <<each[1]>>, <<>>)

firehose_deliver(client, stream_name, records) ==
    IF PyLen(records) = 0 THEN SinkResult(EmptyError, <<>>, <<>>)
    ELSE IF records.shape = "dict" THEN SinkResult(ShapeError, <<>>, <<>>)
    ELSE PutRecord(client,
                   [DeliveryStreamName |-> stream_name,
                    Record |-> [Data |-> Payload(records.items)]])

\* payload.encode() is kept as the payload; PartitionKey is
\* records[0][partition_key], a KeyError when the first record lacks it
kinesis_deliver(client, stream_name, partition_key, records) ==
    IF PyLen(records) = 0 THEN SinkResult(EmptyError, <<>>, <<>>)
    ELSE IF records.shape = "dict" THEN SinkResult(ShapeError, <<>>, <<>>)
    ELSE IF partition_key \notin DOMAIN records.items[1]
         THEN SinkResult("KeyError", <<>>, <<>>)
    ELSE PutRecord(client,
                   [StreamName |-> stream_name,
                    Data |-> Payload(records.items),
                    PartitionKey |-> records.items[1][partition_key]])

\* deliver_records: the sink chosen by is_firehose
deliver_records(cfg, client, records) ==
    IF CfgGet(cfg, "is_firehose", FALSE)
    THEN firehose_deliver(client,
                          CfgGet(cfg, "stream_name", "missing-stream-name"),
                          records)
    ELSE kinesis_deliver(client,
                         CfgGet(cfg, "stream_name", "missing-stream-name"),
                         CfgGet(cfg, "partition_key", "id"),
                         records)

(***************************************************************************)
(* The line handlers (target.py).                                          *)
(***************************************************************************)
\* a decoder that accepts every line
decode_line_lenient(line) == [raised |-> FALSE, o |-> line.obj]

\* decode_line: json.loads, JSONDecodeError re-raised on malformed text
decode_line(line) ==
    IF line.valid THEN [raised |-> FALSE, o |-> line.obj]
    ELSE [raised |-> TRUE, o |-> <<>>]

\* get_line_type: raises when 'type' is missing
has_line_type(o) == "type" \in DOMAIN o

\* the registry check skipped
stream_known_unchecked(o, schs) == TRUE

\* handle_record, line 115: o['stream'] in schemas
stream_known(o, schs) == o.stream \in DOMAIN schs

\* the record put at the head of the buffer
buffer_record_front(recs, record) == <<record>> \o recs

\* buffer_record: RECORDS.append(record)
buffer_record(recs, record) == Append(recs, record)

\* handle_record: the exception raised ("" when none) and the new RECORDS
handle_record(o, schs, cfg, ts, recs) ==
    IF "stream" \notin DOMAIN o
    THEN [raised |-> "missing stream", RECORDS |-> recs]
    ELSE IF ~stream_known(o, schs)
    THEN [raised |-> "record before schema", RECORDS |-> recs]
    ELSE LET record == IF CfgGet(cfg, "add_metadata_columns", FALSE)
                       THEN add_metadata_values_to_record(o, <<>>, ts)
                       ELSE remove_metadata_values_from_record(o)
             tagged == Update(record, [stream |-> Quote(o.stream)])
         IN  [raised |-> "", RECORDS |-> buffer_record(recs, tagged)]

\* the value not returned
handle_state_no_return(o) == None

\* handle_state: return o['value']
handle_state(o) == o.value

\* the pending checkpoint kept across a record
state_after_record_kept(st) == st

\* persist_lines, line 182: state = None after handle_record
state_after_record(st) == None

\* handle_schema: schemas and validators are stored before key_properties
\* is looked at; the float_to_decimal copy of line 143 is overwritten by
\* line 145 and leaves nothing behind
handle_schema(o, schs, vals, keys, cfg) ==
    IF "stream" \notin DOMAIN o
    THEN [raised |-> "missing stream", schemas |-> schs, validators |-> vals,
          key_properties |-> keys]
    ELSE LET stream == o.stream
             o1 == IF CfgGet(cfg, "add_metadata_columns", FALSE)
                   THEN add_metadata_columns_to_schema(o) ELSE o
             schs1 == (stream :> o1.schema) @@ schs
             vals1 == (stream :> o1.schema) @@ vals
         IN  IF "key_properties" \notin DOMAIN o
             THEN [raised |-> "key_properties field is required",
                   schemas |-> schs1, validators |-> vals1,
                   key_properties |-> keys]
             ELSE [raised |-> "", schemas |-> schs1, validators |-> vals1,
                   key_properties |-> (stream :> o.key_properties) @@ keys]

(***************************************************************************)
(* The flush thresholds (persist_lines, lines 191-199).                    *)
(***************************************************************************)
\* the count limit exceeded by two
enough_records_lax(cfg, recs) == Len(recs) > record_chunks(cfg) + 1

\* the count limit reached, not exceeded
enough_records_at_limit(cfg, recs) == Len(recs) >= record_chunks(cfg)

\* enough_records = len(RECORDS) > record_chunks
enough_records(cfg, recs) == Len(recs) > record_chunks(cfg)

\* the size limit without the +3
enough_data_no_offset(cfg, recs) == StrLen(recs) > data_chunks(cfg)

\* enough_data = len(str(RECORDS)) > (data_chunks + 3)
enough_data(cfg, recs) == StrLen(recs) > (data_chunks(cfg) + 3)

\* the end-of-input flush left out
pending_after_last_line_never(cfg, recs) == FALSE

\* the end-of-input flush only above the count limit
pending_after_last_line_over_limit(cfg, recs) == enough_records(cfg, recs)

\* persist_lines, line 204: len(RECORDS) > 0
pending_after_last_line(cfg, recs) == Len(recs) > 0

\* the buffer not reset after a flush
records_after_deliver_kept(recs) == recs

\* persist_lines, line 201: RECORDS = [] after deliver_records
records_after_deliver(recs) == <<>>

\* an exception of the sink swallowed
deliver_raised_swallowed(result) == FALSE

\* an exception of deliver_records propagates out of persist_lines
deliver_raised(result) == result.raised # ""

(***************************************************************************)
(* persist_lines: one iteration of the for loop, the end of the input,     *)
(* and main's emit_state.                                                  *)
(***************************************************************************)
Clients == {[ok |-> TRUE, response |-> [HTTPStatusCode |-> 200]],
            [ok |-> FALSE, response |-> [HTTPStatusCode |-> 200]]}

\* lines 177-189: decode, type, dispatch.  The exception raised ("" when
\* none) and the locals after the dispatch; lines holds, for each buffered
\* record, the number of the input line it came from
Dispatch(line) ==
    LET kept == [raised |-> "", RECORDS |-> RECORDS, state |-> state,
                 schemas |-> schemas, validators |-> validators,
                 key_properties |-> key_properties, lines |-> record_lines]
        dec == decode_line(line)
        o == dec.o
    IN  IF dec.raised THEN [kept EXCEPT !.raised = "JSONDecodeError"]
        ELSE IF ~has_line_type(o) THEN [kept EXCEPT !.raised = "missing type"]
        ELSE IF o.type = "RECORD"
        THEN LET h == handle_record(o, schemas, config, now, RECORDS)
             IN  IF h.raised # "" THEN [kept EXCEPT !.raised = h.raised]
                 ELSE [kept EXCEPT !.RECORDS = h.RECORDS,
                                   !.state = state_after_record(state),
                                   !.lines = Append(record_lines, lines_counter + 1)]
        ELSE IF o.type = "STATE"
        THEN IF "value" \notin DOMAIN o THEN [kept EXCEPT !.raised = "KeyError"]
             ELSE [kept EXCEPT !.state = handle_state(o)]
        ELSE IF o.type = "SCHEMA"
        THEN LET h == handle_schema(o, schemas, validators, key_properties, config)
             IN  [kept EXCEPT !.raised = h.raised, !.schemas = h.schemas,
                              !.validators = h.validators,
                              !.key_properties = h.key_properties]
        ELSE [kept EXCEPT !.raised = "unknown message type"]

\* the log entry of one deliver_records call: what triggered it, after how
\* many lines, the batch, the input lines of its records, the exception
Call(trigger, line, recs, lines, result) ==
    [trigger |-> trigger, line |-> line, records |-> recs,
     lines |-> lines, raised |-> result.raised]

\* lines 170-201: the body of the loop for one line
LoopBody(line, client) ==
    /\ pc = "processing"
    /\ lines_counter' = lines_counter + 1
    /\ consumed' = Append(consumed, line)
    /\ LET d == Dispatch(line)
       IN  /\ state' = d.state
           /\ schemas' = d.schemas
           /\ validators' = d.validators
           /\ key_properties' = d.key_properties
           /\ IF d.raised # ""
              THEN /\ pc' = "error"
                   /\ RECORDS' = d.RECORDS
                   /\ record_lines' = d.lines
                   /\ UNCHANGED <<calls, put_records>>
              ELSE IF enough_records(config, d.RECORDS) \/ enough_data(config, d.RECORDS)
              THEN LET r == deliver_records(config, client, ListArg(d.RECORDS))
                   IN  /\ calls' = Append(calls, Call("line", lines_counter + 1, d.RECORDS, d.lines, r))
                       /\ put_records' = put_records \o r.puts
                       /\ IF deliver_raised(r)
                          THEN /\ pc' = "error"
                               /\ RECORDS' = d.RECORDS
                               /\ record_lines' = d.lines
                          ELSE /\ pc' = "processing"
                               /\ RECORDS' = records_after_deliver(d.RECORDS)
                               /\ record_lines' =
                                     IF RECORDS' = <<>> THEN <<>> ELSE d.lines
              ELSE /\ pc' = "processing"
                   /\ RECORDS' = d.RECORDS
                   /\ record_lines' = d.lines
                   /\ UNCHANGED <<calls, put_records>>
    /\ UNCHANGED <<config, now, returned, stdout, sink_args, sink_result,
                   enrich_args, enrich_result>>

\* lines 203-207: the pending records are delivered and state is returned;
\* RECORDS is not reset after this call
EndOfInput(client) ==
    /\ pc = "processing"
    /\ IF pending_after_last_line(config, RECORDS)
       THEN LET r == deliver_records(config, client, ListArg(RECORDS))
            IN  /\ calls' = Append(calls, Call("eof", lines_counter, RECORDS, record_lines, r))
                /\ put_records' = put_records \o r.puts
                /\ IF deliver_raised(r)
                   THEN pc' = "error" /\ returned' = returned
                   ELSE pc' = "finished" /\ returned' = state
       ELSE /\ pc' = "finished"
            /\ returned' = state
            /\ UNCHANGED <<calls, put_records>>
    /\ UNCHANGED <<config, now, RECORDS, state, schemas, validators,
                   key_properties, lines_counter, stdout, consumed,
                   record_lines, sink_args, sink_result,
                   enrich_args, enrich_result>>

\* the state written even when it is None
emit_state_always(st, out) == Append(out, [json |-> st, nl |-> TRUE])

\* emit_state: json.dumps(state) and a newline written to stdout, unless
\* state is None
emit_state(st, out) == IF st # None THEN Append(out, [json |-> st, nl |-> TRUE]) ELSE out

\* main, lines 250-253
Main ==
    /\ pc = "finished"
    /\ stdout' = emit_state(returned, stdout)
    /\ pc' = "exited"
    /\ UNCHANGED <<config, now, RECORDS, state, schemas, validators,
                   key_properties, lines_counter, returned, consumed, calls,
                   put_records, record_lines, sink_args, sink_result,
                   enrich_args, enrich_result>>

(***************************************************************************)
(* Spec: every input of at most MaxLines lines, every configuration of     *)
(* Configs, every outcome of the sink.                                     *)
(***************************************************************************)
InitWith(cfgs) ==
    /\ config \in cfgs
    /\ now \in Timestamps
    /\ RECORDS = <<>>
    /\ state = None
    /\ schemas = <<>>
    /\ validators = <<>>
    /\ key_properties = <<>>
    /\ lines_counter = 0
    /\ pc = "processing"
    /\ returned = None
    /\ stdout = <<>>
    /\ consumed = <<>>
    /\ calls = <<>>
    /\ put_records = <<>>
    /\ record_lines = <<>>
    /\ sink_args = <<>>
    /\ sink_result = <<>>
    /\ enrich_args = <<>>
    /\ enrich_result = <<>>

Init == InitWith(Configs)

ReadRecord ==
    /\ lines_counter < MaxLines
    /\ \E line \in RecordLines \cup RecordNoStreamLines, client \in Clients :
          LoopBody(line, client)

ReadState ==
    /\ lines_counter < MaxLines
    /\ \E line \in StateLines, client \in Clients : LoopBody(line, client)

ReadSchema ==
    /\ lines_counter < MaxLines
    /\ \E line \in SchemaLines \cup SchemaNoKeyLines \cup SchemaNoStreamLines,
          client \in Clients : LoopBody(line, client)

ReadInvalid ==
    /\ lines_counter < MaxLines
    /\ \E line \in MalformedLines \cup MissingTypeLines \cup UnknownTypeLines,
          client \in Clients : LoopBody(line, client)

ReadEnd == \E client \in Clients : EndOfInput(client)

Next == ReadRecord \/ ReadState \/ ReadSchema \/ ReadInvalid \/ ReadEnd \/ Main

Spec == Init /\ [][Next]_vars

(***************************************************************************)
(* SpecBatch: a Schema message followed by Record messages of that stream, *)
(* the size threshold left at its default and every count threshold        *)
(* 0..MaxRecordChunks or the default.                                      *)
(***************************************************************************)
MaxRecordChunks == 3

BatchConfigs ==
    ConfigsOf(Opt("record_chunks", 0..MaxRecordChunks), {<<>>}, {<<>>},
              Opt("is_firehose", {TRUE}))

BatchSchemaLine ==
    [valid |-> TRUE,
     obj |-> [type |-> "SCHEMA", stream |-> "users",
              schema |-> SchemaProperties, key_properties |-> "['id']"]]

BatchRecordLine ==
    [valid |-> TRUE,
     obj |-> [type |-> "RECORD", stream |-> "users", record |-> [id |-> "1"],
              version |-> "7"]]

InitBatch == InitWith(BatchConfigs)

BatchSchema ==
    /\ lines_counter = 0
    /\ \E client \in Clients : LoopBody(BatchSchemaLine, client)

BatchRecord ==
    /\ lines_counter >= 1
    /\ lines_counter < MaxBatchLines
    /\ \E client \in Clients : LoopBody(BatchRecordLine, client)

NextBatch == BatchSchema \/ BatchRecord \/ ReadEnd \/ Main

SpecBatch == InitBatch /\ [][NextBatch]_vars

(***************************************************************************)
(* SpecSink: the two sinks applied to every argument: lists of at most     *)
(* MaxSinkBatch records, and bare records (dicts).                         *)
(***************************************************************************)
SinkRecords == {[id |-> "1", stream |-> "'users'"],
                [id |-> "2", stream |-> "'users'"],
                [name |-> "'a'", stream |-> "'orders'"]}

RECURSIVE ListsUpTo(_, _)
ListsUpTo(S, n) ==
    IF n = 0 THEN {<<>>}
    ELSE LET shorter == ListsUpTo(S, n - 1)
         IN  shorter \cup {Append(l, r) : l \in shorter, r \in S}

SinkArgs ==
    {[client |-> c, stream_name |-> n, partition_key |-> "id", records |-> a] :
        c \in Clients, n \in {"test-stream", "another-name"},
        a \in {ListArg(l) : l \in ListsUpTo(SinkRecords, MaxSinkBatch)}
              \cup {DictArg(r) : r \in SinkRecords \cup {<<>>}}}

InitSink ==
    /\ sink_args \in SinkArgs
    /\ sink_result = <<>>
    /\ enrich_args = <<>>
    /\ enrich_result = <<>>
    /\ pc = "sink"
    /\ config = <<>>
    /\ now \in Timestamps
    /\ RECORDS = <<>>
    /\ state = None
    /\ schemas = <<>>
    /\ validators = <<>>
    /\ key_properties = <<>>
    /\ lines_counter = 0
    /\ returned = None
    /\ stdout = <<>>
    /\ consumed = <<>>
    /\ calls = <<>>
    /\ put_records = <<>>
    /\ record_lines = <<>>

SinkFrame ==
    UNCHANGED <<config, now, RECORDS, state, schemas, validators,
                key_properties, lines_counter, pc, returned, stdout, consumed,
                calls, put_records, record_lines, sink_args, enrich_args,
                enrich_result>>

CallFirehose ==
    /\ pc = "sink"
    /\ sink_result = <<>>
    /\ sink_result' =
          <<[sink |-> "firehose",
             result |-> firehose_deliver(sink_args.client, sink_args.stream_name,
                                         sink_args.records)]>>
    /\ SinkFrame

CallKinesis ==
    /\ pc = "sink"
    /\ sink_result = <<>>
    /\ sink_result' =
          <<[sink |-> "kinesis",
             result |-> kinesis_deliver(sink_args.client, sink_args.stream_name,
                                        sink_args.partition_key,
                                        sink_args.records)]>>
    /\ SinkFrame

NextSink == CallFirehose \/ CallKinesis

SpecSink == InitSink /\ [][NextSink]_vars

(***************************************************************************)
(* SpecEnrich: the two record transforms applied to every record message   *)
(* of EnrichMessages: enrich then strip, or strip alone, strip repeated up *)
(* to MaxEnrichOps operations in all.                                      *)
(***************************************************************************)
MaxEnrichOps == 2

EnrichTimestamps ==
    {[iso |-> "'2020-01-01T00:00:00'", ms |-> "1577836800000"],
     [iso |-> "'2020-01-01T00:00:01'", ms |-> "1577836801000"]}

\* records with and without fields that are named like bookkeeping fields
EnrichFields == [id |-> "1", _sdc_deleted_at |-> "'2019-12-31'", _sdc_sequence |-> "5"]

EnrichPayloads == {[k \in keys |-> EnrichFields[k]] : keys \in SUBSET DOMAIN EnrichFields}

EnrichMessages ==
    {[type |-> "RECORD", stream |-> "users", record |-> r] @@ te @@ v :
        r \in EnrichPayloads,
        te \in Opt("time_extracted", {"'2019-12-30T10:00:00'"}),
        v \in Opt("version", {"7"})}

EnrichArgs ==
    {[o |-> o, schema_message |-> c, timestamp |-> t] :
        o \in EnrichMessages,
        c \in {<<>>, [key_properties |-> "['id']"]},
        t \in EnrichTimestamps}

InitEnrich ==
    /\ enrich_args \in EnrichArgs
    /\ enrich_result = [ops |-> <<>>, o |-> enrich_args.o]
    /\ pc = "enrich"
    /\ sink_args = <<>>
    /\ sink_result = <<>>
    /\ config = <<>>
    /\ now \in Timestamps
    /\ RECORDS = <<>>
    /\ state = None
    /\ schemas = <<>>
    /\ validators = <<>>
    /\ key_properties = <<>>
    /\ lines_counter = 0
    /\ returned = None
    /\ stdout = <<>>
    /\ consumed = <<>>
    /\ calls = <<>>
    /\ put_records = <<>>
    /\ record_lines = <<>>

EnrichFrame ==
    UNCHANGED <<config, now, RECORDS, state, schemas, validators,
                key_properties, lines_counter, pc, returned, stdout, consumed,
                calls, put_records, record_lines, sink_args, sink_result,
                enrich_args>>

\* o['record'] = add_metadata_values_to_record(o, schema_message, ts)
ApplyEnrich ==
    /\ pc = "enrich"
    /\ enrich_result.ops = <<>>
    /\ enrich_result' =
          [ops |-> <<"enrich">>,
           o |-> [enrich_result.o EXCEPT !.record =
                     add_metadata_values_to_record(enrich_result.o,
                                                   enrich_args.schema_message,
                                                   enrich_args.timestamp)]]
    /\ EnrichFrame

\* o['record'] = remove_metadata_values_from_record(o)
ApplyStrip ==
    /\ pc = "enrich"
    /\ Len(enrich_result.ops) < MaxEnrichOps
    /\ enrich_result' =
          [ops |-> Append(enrich_result.ops, "strip"),
           o |-> [enrich_result.o EXCEPT !.record =
                     remove_metadata_values_from_record(enrich_result.o)]]
    /\ EnrichFrame

NextEnrich == ApplyEnrich \/ ApplyStrip

SpecEnrich == InitEnrich /\ [][NextEnrich]_vars

(***************************************************************************)
(* Vocabulary of the properties.                                           *)
(***************************************************************************)
Last(s) == s[Len(s)]

LineIs(i, type) ==
    /\ consumed[i].valid
    /\ "type" \in DOMAIN consumed[i].obj
    /\ consumed[i].obj.type = type

\* the input lines whose records were part of a deliver call that succeeded
DeliveredLines ==
    {n \in 1..lines_counter :
        \E i \in 1..Len(calls) :
            /\ calls[i].raised = ""
            /\ \E k \in 1..Len(calls[i].lines) : calls[i].lines[k] = n}

BufferedLines == {record_lines[k] : k \in 1..Len(record_lines)}

Returned == pc \in {"finished", "exited"}

\* C1: checkpoint safety.  When persist_lines returns a checkpoint that is
\* not None, it is the value of a State message of the input, every Record
\* message before that State message was in a deliver call that succeeded,
\* no buffered record is undelivered, and main writes that value only.
C1_CheckpointSafety ==
    (Returned /\ returned # None) =>
        /\ \E i \in 1..Len(consumed) :
              /\ LineIs(i, "STATE")
              /\ consumed[i].obj.value = returned
              /\ \A j \in 1..(i - 1) : LineIs(j, "RECORD") => j \in DeliveredLines
        /\ BufferedLines \subseteq DeliveredLines
        /\ Len(RECORDS) = Len(record_lines)
        /\ \A i \in 1..Len(calls) : Len(calls[i].records) = Len(calls[i].lines)
        /\ pc = "exited" => stdout = <<[json |-> returned, nl |-> TRUE]>>

C1_Witness ==
    /\ pc = "exited"
    /\ returned # None
    /\ Len(calls) = 2
    /\ \E i \in 1..Len(consumed) : LineIs(i, "STATE") /\ (i - 1) \in DeliveredLines

\* the scenario of C2: Schema, State, Record of that stream, end of input,
\* and no flush triggered by a threshold
C2_Scenario ==
    /\ Len(consumed) = 3
    /\ consumed[1] \in SchemaLines
    /\ consumed[2] \in StateLines
    /\ consumed[3] \in RecordLines
    /\ consumed[3].obj.stream = consumed[1].obj.stream
    /\ \A i \in 1..Len(calls) : calls[i].trigger = "eof"
    /\ pc \in {"finished", "exited", "error"}

\* C2 as claimed: in the scenario, once the forced flush has succeeded the
\* checkpoint v is returned and written to the output.
C2_CheckpointEmitted ==
    (C2_Scenario /\ pc = "exited") =>
        /\ returned = consumed[2].obj.value
        /\ stdout = <<[json |-> consumed[2].obj.value, nl |-> TRUE]>>

\* C2 amended: in the scenario the end-of-input flush is the only deliver
\* call and carries exactly the record; when it succeeds persist_lines
\* returns None (the Record cleared the checkpoint) and nothing is written.
C2_NoCheckpointAfterRecord ==
    C2_Scenario =>
        /\ Len(calls) = 1
        /\ calls[1].lines = <<3>>
        /\ Len(calls[1].records) = 1
        /\ calls[1].records[1]["stream"] = Quote(consumed[3].obj.stream)
        /\ (calls[1].raised = "") <=> (pc # "error")
        /\ calls[1].raised = "" => returned = None /\ stdout = <<>>

C2_Witness ==
    /\ C2_Scenario
    /\ pc = "exited"
    /\ calls[1].raised = ""

\* C3: a deliver call that fails is the last thing that happens: it is the
\* last call, no line after the one that triggered it is processed,
\* processing is in error and nothing is written to the output.
C3_FailureHalts ==
    \A i \in 1..Len(calls) :
        calls[i].raised # "" =>
            /\ i = Len(calls)
            /\ pc = "error"
            /\ lines_counter = calls[i].line
            /\ Len(consumed) = calls[i].line
            /\ stdout = <<>>
            /\ Len(put_records) <= Len(calls)

C3_Witness ==
    /\ calls # <<>>
    /\ Last(calls).raised = "ClientError"
    /\ state # None
    /\ Len(calls) = 2

\* a step of the loop that appended a record of input line lines_counter'
RecordAppended ==
    /\ lines_counter' = lines_counter + 1
    /\ LineIs(lines_counter, "RECORD")'
    /\ \/ record_lines' # <<>> /\ Last(record_lines') = lines_counter'
       \/ /\ Len(calls') > Len(calls)
          /\ Last(calls').lines # <<>>
          /\ Last(Last(calls').lines) = lines_counter'

FlushTriggered == Len(calls') > Len(calls)

\* the buffer the flush check of this step looked at
CheckedBuffer == IF FlushTriggered THEN Last(calls').records ELSE RECORDS'

\* the stringified length shifted so that it is zero for the empty buffer
ZeroBasedSizeEstimate(recs) == StrLen(recs) - StrLen(<<>>)

\* C4 as claimed: after a record is appended a flush is triggered exactly
\* when the count exceeds record_chunks or a size estimate that is zero for
\* the empty buffer exceeds data_chunks.
C4_FlushPredicateZeroBased ==
    [][RecordAppended =>
          (FlushTriggered <=>
              \/ Len(CheckedBuffer) > record_chunks(config)
              \/ ZeroBasedSizeEstimate(CheckedBuffer) > data_chunks(config))]_vars

\* C4 amended: after a record is appended a flush is triggered exactly when
\* the count exceeds record_chunks or len(str(RECORDS)) exceeds
\* data_chunks + 3; len(str(RECORDS)) is 2 for the empty buffer and does not
\* decrease when a record is appended; a buffer left unflushed exceeds
\* neither limit.
C4_FlushPredicate ==
    [][RecordAppended =>
          /\ FlushTriggered <=>
                \/ Len(CheckedBuffer) > record_chunks(config)
                \/ StrLen(CheckedBuffer) > data_chunks(config) + 3
          /\ StrLen(<<>>) = 2
          /\ Len(CheckedBuffer) = Len(RECORDS) + 1
          /\ StrLen(CheckedBuffer) >= StrLen(RECORDS)
          /\ FlushTriggered => Last(calls').trigger = "line"
          /\ ~FlushTriggered =>
                /\ Len(RECORDS') <= record_chunks(config)
                /\ StrLen(RECORDS') - 3 <= data_chunks(config)]_vars

\* a flush triggered by the size alone, by the smallest excess
C4_Witness ==
    /\ calls # <<>>
    /\ Last(calls).trigger = "line"
    /\ Last(calls).line = lines_counter
    /\ Len(Last(calls).records) = 2
    /\ Len(Last(calls).records) <= record_chunks(config)
    /\ StrLen(Last(calls).records) > data_chunks(config) + 3
    /\ StrLen(<<Last(calls).records[1]>>) = data_chunks(config) + 3

\* the deliver calls triggered by a threshold, in call order
LineCalls == SelectSeq(calls, LAMBDA c : c.trigger = "line")

EofCalls == SelectSeq(calls, LAMBDA c : c.trigger = "eof")

\* C5: count-driven batching.  After a Schema line and N Record lines, with
\* M = record_chunks and the size threshold never crossed, the threshold
\* flushes are those after the (M+1)-th, 2(M+1)-th, ... record, each with
\* M+1 records; the end-of-input flush carries the N mod (M+1) remaining
\* records and exists only when that number is not zero; 11 records with
\* M = 10 make one deliver call of 11 records.
C5_CountBatching ==
    LET M == record_chunks(config)
        N == lines_counter - 1
    IN  (lines_counter >= 1 /\ M >= 0 /\
         \A i \in 1..Len(calls) : ~enough_data(config, calls[i].records)) =>
            /\ N \div (M + 1) = Len(LineCalls)
            /\ \A i \in 1..Len(LineCalls) :
                  /\ LineCalls[i].line = 1 + i * (M + 1)
                  /\ Len(LineCalls[i].records) = M + 1
                  /\ LineCalls[i].lines =
                        [k \in 1..(M + 1) |-> 1 + (i - 1) * (M + 1) + k]
            /\ Len(EofCalls) <= 1
            /\ \A i \in 1..Len(EofCalls) :
                  /\ Len(EofCalls[i].records) = N % (M + 1)
                  /\ EofCalls[i].records # <<>>
                  /\ EofCalls[i] = Last(calls)
            /\ Returned => (EofCalls # <<>> <=> N % (M + 1) # 0)
            /\ (Returned /\ N = 11 /\ M = 10) =>
                  /\ Len(calls) = 1
                  /\ Len(calls[1].records) = 11
                  /\ calls[1].trigger = "line"

C5_Witness ==
    /\ pc = "exited"
    /\ lines_counter = 12
    /\ record_chunks(config) = 10
    /\ Len(calls) = 1
    /\ Len(calls[1].records) = 11

\* C6 as claimed: deliver_records is never called with an empty batch,
\* whatever the two thresholds are.
C6_NoEmptyBatch == \A i \in 1..Len(calls) : calls[i].records # <<>>

\* input line i is a Record message whose stream no earlier Schema message
\* declared
UnknownStreamRecord(i) ==
    /\ LineIs(i, "RECORD")
    /\ "stream" \in DOMAIN consumed[i].obj
    /\ ~\E j \in 1..(i - 1) :
          /\ LineIs(j, "SCHEMA")
          /\ "stream" \in DOMAIN consumed[j].obj
          /\ consumed[j].obj.stream = consumed[i].obj.stream

\* C7: a Record message of an undeclared stream halts processing: the step
\* that reads it leaves the buffer, the deliver calls and the output as they
\* were, and from then on it is the last line read, processing is in error,
\* no deliver call is made at or after it and the output is empty.
C7_UnknownStreamHalts ==
    /\ [](\A i \in 1..Len(consumed) :
             UnknownStreamRecord(i) =>
                /\ pc = "error"
                /\ i = Len(consumed)
                /\ i = lines_counter
                /\ i \notin BufferedLines
                /\ \A c \in 1..Len(calls) : calls[c].line < i
                /\ BufferedLines \cap DeliveredLines = {}
                /\ stdout = <<>>)
    /\ [][(lines_counter' = lines_counter + 1 /\ UnknownStreamRecord(lines_counter)') =>
             /\ RECORDS' = RECORDS
             /\ record_lines' = record_lines
             /\ calls' = calls
             /\ put_records' = put_records
             /\ stdout' = stdout]_vars

C7_Witness ==
    /\ consumed # <<>>
    /\ UnknownStreamRecord(Len(consumed))
    /\ RECORDS # <<>>
    /\ state # None

\* C8: a malformed line changes nothing but the position in the input: the
\* registry, the buffer and the pending checkpoint are as before, no deliver
\* call is made, and processing halts there.
C8_MalformedLineFrame ==
    /\ [](\A i \in 1..Len(consumed) :
             ~consumed[i].valid => pc = "error" /\ i = Len(consumed) /\ i = lines_counter)
    /\ [][(lines_counter' = lines_counter + 1 /\ ~Last(consumed').valid) =>
             /\ schemas' = schemas
             /\ validators' = validators
             /\ key_properties' = key_properties
             /\ RECORDS' = RECORDS
             /\ state' = state
             /\ calls' = calls
             /\ put_records' = put_records
             /\ stdout' = stdout
             /\ pc' = "error"]_vars

C8_Witness ==
    /\ consumed # <<>>
    /\ ~Last(consumed).valid
    /\ Last(consumed).obj.type = "RECORD"
    /\ Last(consumed).obj.stream \in DOMAIN schemas
    /\ RECORDS # <<>>
    /\ Len(consumed) = 3

\* C9 as claimed: both sinks reject an empty list with the empty-batch error
\* and every bare record (dict), empty or not, with the invalid-shape error,
\* without a put_record call.
C9_SinksReject ==
    \A i \in 1..Len(sink_result) :
        LET a == sink_args.records
            r == sink_result[i].result
        IN  /\ (a.shape = "list" /\ a.items = <<>>) =>
                  r.raised = EmptyError /\ r.puts = <<>>
            /\ a.shape = "dict" =>
                  r.raised = ShapeError /\ r.puts = <<>>

\* C10: one sink call per flush.  For a non-empty list (of which, for
\* kinesis, the first record has the partition key) the sink makes exactly
\* one put_record call; its payload holds the records of the batch in
\* order, one document each, each followed by a newline; the response of
\* put_record is returned.
C10_OnePutPerFlush ==
    \A i \in 1..Len(sink_result) :
        LET a == sink_args.records
            r == sink_result[i].result
            sink == sink_result[i].sink
            data == IF sink = "firehose" THEN r.puts[1].Record.Data
                    ELSE r.puts[1].Data
        IN  (/\ a.shape = "list"
             /\ a.items # <<>>
             /\ sink = "kinesis" => sink_args.partition_key \in DOMAIN a.items[1]) =>
                /\ Len(r.puts) = 1
                /\ Len(data) = Len(a.items)
                /\ \A k \in 1..Len(a.items) :
                      data[k].doc = a.items[k] /\ data[k].nl
                /\ sink = "firehose" =>
                      r.puts[1].DeliveryStreamName = sink_args.stream_name
                /\ sink = "kinesis" =>
                      /\ r.puts[1].StreamName = sink_args.stream_name
                      /\ r.puts[1].PartitionKey =
                            a.items[1][sink_args.partition_key]
                /\ sink_args.client.ok =>
                      r.raised = "" /\ r.response = <<sink_args.client.response>>

C10_Witness ==
    /\ sink_result # <<>>
    /\ sink_result[1].sink = "firehose"
    /\ sink_args.records.shape = "list"
    /\ Len(sink_args.records.items) = 2
    /\ sink_args.records.items[1] # sink_args.records.items[2]
    /\ sink_args.client.ok
    /\ Len(sink_result[1].result.puts) = 1

\* a step that is the end of the input
EndOfInputStep ==
    /\ pc = "processing"
    /\ pc' \in {"finished", "error"}
    /\ lines_counter' = lines_counter

\* C11: end-of-input forced flush.  When the input ends with a non-empty
\* buffer, exactly one more deliver call is made, with all the remaining
\* records, whatever the thresholds; Finished is reached only if it
\* succeeds, and then the pending checkpoint is returned.  When the input
\* ends with an empty buffer no deliver call is made.
C11_ForcedFlush ==
    [][EndOfInputStep =>
          /\ RECORDS # <<>> =>
                /\ Len(calls') = Len(calls) + 1
                /\ Last(calls').trigger = "eof"
                /\ Last(calls').records = RECORDS
                /\ Last(calls').lines = record_lines
                /\ (pc' = "finished") <=> (Last(calls').raised = "")
                /\ Len(put_records') <= Len(put_records) + 1
          /\ RECORDS = <<>> =>
                /\ calls' = calls
                /\ put_records' = put_records
                /\ pc' = "finished"
          /\ pc' = "finished" => returned' = state]_vars

\* the forced flush of two records that are below both thresholds, with a
\* checkpoint pending
C11_Witness ==
    /\ pc = "finished"
    /\ calls # <<>>
    /\ Last(calls).trigger = "eof"
    /\ Len(Last(calls).records) = 2
    /\ ~enough_records(config, Last(calls).records)
    /\ ~enough_data(config, Last(calls).records)
    /\ returned # None

\* C12: at most one checkpoint line is written per run; it is written only
\* once persist_lines has returned (all input read, every flush succeeded)
\* and it is the returned value; nothing is written when that value is None.
C12_OneCheckpointLine ==
    /\ Len(stdout) <= 1
    /\ stdout # <<>> =>
          /\ pc = "exited"
          /\ returned # None
          /\ stdout[1] = [json |-> returned, nl |-> TRUE]
    /\ pc = "exited" =>
          /\ \A i \in 1..Len(calls) : calls[i].raised = ""
          /\ returned = state
          /\ returned = None => stdout = <<>>
    /\ pc # "exited" => stdout = <<>>

\* a checkpoint written for an input without records
C12_Witness ==
    /\ pc = "exited"
    /\ Len(stdout) = 1
    /\ calls = <<>>
    /\ lines_counter = 2
    /\ \A i \in 1..Len(consumed) : LineIs(i, "STATE")

\* the Record message that buffered record k came from
SourceOf(k) == consumed[record_lines[k]].obj

\* C13 as claimed: with add_metadata_columns enabled, every buffered record
\* has in _sdc_primary_key the key properties that the Schema message of
\* its stream declared, its _sdc_received_at equals its _sdc_batched_at and
\* its _sdc_table_version is the version of its Record message.
C13_PrimaryKeyFilled ==
    CfgGet(config, "add_metadata_columns", FALSE) =>
        \A k \in 1..Len(RECORDS) :
            /\ RECORDS[k]["_sdc_primary_key"] = key_properties[SourceOf(k).stream]
            /\ RECORDS[k]["_sdc_received_at"] = RECORDS[k]["_sdc_batched_at"]
            /\ RECORDS[k]["_sdc_received_at"] = now.iso
            /\ RECORDS[k]["_sdc_table_version"] = Get(SourceOf(k), "version")

\* C14 as claimed: strip(enrich(r, ctx, t)) has exactly the fields and
\* values of r, for every record r.
C14_RoundTripExact ==
    enrich_result.ops = <<"enrich", "strip">> =>
        enrich_result.o.record = enrich_args.o.record

\* C14 amended: strip(enrich(r, ctx, t)) has exactly the fields and values
\* of r that are not among the seven bookkeeping keys; it equals r when r
\* carries none of them.
C14_RoundTripModuloSdc ==
    enrich_result.ops = <<"enrich", "strip">> =>
        LET r == enrich_args.o.record
            back == enrich_result.o.record
        IN  /\ DOMAIN back = (DOMAIN r) \ SdcKeys
            /\ \A k \in DOMAIN back : back[k] = r[k]
            /\ (DOMAIN r) \cap SdcKeys = {} => back = r

C14_Witness ==
    /\ enrich_result.ops = <<"enrich", "strip">>
    /\ DOMAIN enrich_args.o.record = {"id"}
    /\ enrich_result.o.record = enrich_args.o.record
    /\ "version" \in DOMAIN enrich_args.o

\* the checkpoint that the first n lines of the input leave pending: the
\* value of the last State message if no Record message follows it
RECURSIVE PendingAfter(_)
PendingAfter(n) ==
    IF n = 0 THEN None
    ELSE IF LineIs(n, "STATE") THEN consumed[n].obj.value
    ELSE IF LineIs(n, "RECORD") THEN None
    ELSE PendingAfter(n - 1)

\* C15: pending-checkpoint tracking.  After a prefix of the input read
\* without error the pending checkpoint is the value of the most recent
\* State message if no Record message was read after it, and None
\* otherwise; Schema messages leave it as it is; the value returned is the
\* pending checkpoint after the last line.
C15_PendingCheckpoint ==
    pc \in {"processing", "finished", "exited"} =>
        /\ state = PendingAfter(Len(consumed))
        /\ Returned => returned = state

C15_Witness ==
    /\ pc = "finished"
    /\ Len(consumed) = 4
    /\ LineIs(2, "RECORD")
    /\ LineIs(3, "STATE")
    /\ LineIs(4, "SCHEMA")
    /\ returned = consumed[3].obj.value

NonNegativeThresholds == record_chunks(config) >= 0 /\ data_chunks(config) >= 0

\* a step of the loop that read a Schema or State message
SchemaOrStateStep ==
    /\ lines_counter' = lines_counter + 1
    /\ LineIs(lines_counter, "SCHEMA")' \/ LineIs(lines_counter, "STATE")'

\* C16: with non-negative thresholds, reading a Schema or State message
\* never causes a deliver call, whatever the buffer holds; every deliver
\* call comes from reading a Record message or from the end of the input.
C16_FlushOnlyOnRecord ==
    /\ [][(NonNegativeThresholds /\ SchemaOrStateStep) =>
             /\ calls' = calls
             /\ put_records' = put_records
             /\ RECORDS' = RECORDS]_vars
    /\ [](NonNegativeThresholds =>
             \A i \in 1..Len(calls) :
                 calls[i].trigger = "line" => LineIs(calls[i].line, "RECORD"))

\* a State message read while the buffer is as full as it can get
C16_Witness ==
    /\ pc = "processing"
    /\ NonNegativeThresholds
    /\ consumed # <<>>
    /\ LineIs(Len(consumed), "STATE")
    /\ Len(RECORDS) = record_chunks(config)
    /\ RECORDS # <<>>
    /\ calls # <<>>

\* C17 as claimed: right after every deliver call that succeeds, triggered
\* by a threshold or forced at the end of the input, the buffer is empty.
C17_BufferEmptyAfterFlush ==
    [][(Len(calls') > Len(calls) /\ Last(calls').raised = "") =>
          RECORDS' = <<>>]_vars

\* the numbers of the input lines that are Record messages, in input order
RecordLineNumbers ==
    SelectSeq([i \in 1..Len(consumed) |-> i], LAMBDA i : LineIs(i, "RECORD"))

\* the input lines of the records passed to the first n deliver calls, in
\* call order
RECURSIVE PassedLines(_)
PassedLines(n) ==
    IF n = 0 THEN <<>> ELSE PassedLines(n - 1) \o calls[n].lines

IsPrefix(s, t) == Len(s) <= Len(t) /\ \A i \in 1..Len(s) : s[i] = t[i]

\* the buffered record rec carries the stream and the fields of the Record
\* message of input line n
CarriesLine(rec, n) ==
    LET o == consumed[n].obj
    IN  /\ rec["stream"] = Quote(o.stream)
        /\ \A k \in (DOMAIN o.record) \ SdcKeys :
              k \in DOMAIN rec /\ rec[k] = o.record[k]

\* C18: no loss, no duplication, order preserved.  The batches passed to
\* deliver, in call order, are the Record messages of the input in input
\* order: all of them, each once, when persist_lines returns; a prefix of
\* them, none twice, when processing halts in error.
C18_NoLossNoDuplication ==
    /\ IsPrefix(PassedLines(Len(calls)), RecordLineNumbers)
    /\ \A i \in 1..Len(calls) :
          /\ Len(calls[i].records) = Len(calls[i].lines)
          /\ \A k \in 1..Len(calls[i].lines) :
                CarriesLine(calls[i].records[k], calls[i].lines[k])
    /\ Returned =>
          /\ PassedLines(Len(calls)) = RecordLineNumbers
          /\ \A i \in 1..Len(calls) : calls[i].raised = ""

\* three records, the first two different, delivered in two batches
C18_Witness ==
    /\ pc = "finished"
    /\ Len(calls) = 2
    /\ Len(calls[1].records) = 2
    /\ calls[1].records[1] # calls[1].records[2]
    /\ PassedLines(2) = <<2, 3, 4>>

\* C19: bounded buffer.  With non-negative thresholds, after every line
\* read without error at most record_chunks records are buffered, and
\* every batch passed to deliver has at most record_chunks + 1 records,
\* however long the input is.
C19_BoundedBuffer ==
    NonNegativeThresholds =>
        /\ pc = "processing" => Len(RECORDS) <= record_chunks(config)
        /\ \A i \in 1..Len(calls) :
              Len(calls[i].records) <= record_chunks(config) + 1

\* eleven records with record_chunks = 2: three full batches, two buffered
C19_Witness ==
    /\ pc = "processing"
    /\ lines_counter = 12
    /\ record_chunks(config) = 2
    /\ Len(calls) = 3
    /\ Len(calls[3].records) = 3
    /\ Len(RECORDS) = 2

\* a step in which a threshold triggered a deliver call
ThresholdFlushStep ==
    /\ Len(calls') > Len(calls)
    /\ Last(calls').trigger = "line"

\* C20: with non-negative thresholds the pending checkpoint is None at
\* every flush triggered by a threshold; a deliver call made while a
\* checkpoint is pending is the forced flush at the end of the input.
C20_NoCheckpointAtThresholdFlush ==
    [][NonNegativeThresholds =>
          /\ ThresholdFlushStep => state' = None
          /\ (Len(calls') > Len(calls) /\ state' # None) =>
                /\ Last(calls').trigger = "eof"
                /\ state' = state]_vars

\* a threshold flush at the record that follows a State message
C20_Witness ==
    /\ NonNegativeThresholds
    /\ pc = "processing"
    /\ calls # <<>>
    /\ Last(calls).trigger = "line"
    /\ Last(calls).line = lines_counter
    /\ lines_counter > 1
    /\ LineIs(lines_counter - 1, "STATE")
    /\ state = None

====
